---- MODULE Spec2Model ----
(***************************************************************************)
(* The retrieval-augmented answering pipeline of apps/RAGChatbot:           *)
(*   - a request to api_ask of app/api.py and answer() of check.py (scope  *)
(*     check, generation, two-stage validation, payload),                  *)
(*     specification Spec;                                                 *)
(*   - google_search() and serpapi_call() of app/services/serp_utils.py    *)
(*     (retry loop, pagination, de-duplication, diversification),          *)
(*     specification SpecSearch;                                           *)
(*   - faiss_save() and faiss_search() of app/services/vectorstore.py on   *)
(*     the two files of the index directory, specification SpecStore;      *)
(*   - diversify_by_domain, rule_validate and in_scope_llm applied once    *)
(*     to arguments drawn from bounded sets, specification SpecPure.       *)
(* Texts are records [id, unknown, len]: which literal or completion the   *)
(* text is, whether it contains the "unknown" marker, and its length.          *)
(* Scores are in tenths (0.6 is 6).                                        *)
(***************************************************************************)
EXTENDS Integers, Sequences, FiniteSets, TLC

VARIABLES
    \* ---- answer() : one request
    req,        \* [kw, mode, debug]: query contains an ALLOWED_KEYWORDS word, mode, debug flag
    cfg,        \* [debugRag]: current_app.config DEBUG_RAG
    pc,         \* position in answer()
    scope,      \* steps["scope"]: [label, score, reason]
    d,          \* result of _doc
    w,          \* result of _web
    draft,      \* result of generate_answer
    validator,  \* rule_validate / validate_answer_llm outcome
    stages,     \* stages passed to _emit_decision_log, in order
    calls,      \* external calls issued, in order
    payload,    \* the dict answer() returns
    \* ---- google_search() / serpapi_call() : one search
    sq,         \* [num, pages]: arguments of google_search
    spc,        \* position in google_search / serpapi_call
    page,       \* loop variable p of google_search
    attempt,    \* number of attempts serpapi_call has started for the current page
    backoff,    \* serpapi_call's backoff
    slept,      \* sequence of delays passed to time.sleep by the current serpapi_call
    outcomes,   \* outcome of each attempt of the current serpapi_call ("fail"/"ok")
    data,       \* hits returned by the current page's successful attempt
    all_hits,   \* google_search's all_hits
    seen_urls,  \* google_search's seen_urls
    starts,     \* the "start" offsets requested so far, in order
    pagelens,   \* number of hits each completed page returned
    sresult,    \* what google_search returned
    \* ---- faiss_save() / faiss_search() : the index directory
    disk,       \* [idx, meta]: rebuild each of the two files comes from (0: absent)
    saver,      \* [pc, gen]: position of the running faiss_save and its rebuild number
    searcher,   \* [pc, idx, meta]: position of the running faiss_search and what it read
    \* ---- one call of a pure function
    call        \* [fn, arg, done, out]: the function, its arguments, whether it has
                \* returned and what

pvars == <<req, cfg, pc, scope, d, w, draft, validator, stages, calls, payload>>
svars == <<sq, spc, page, attempt, backoff, slept, outcomes, data, all_hits,
           seen_urls, starts, pagelens, sresult>>
stvars == <<disk, saver, searcher>>
fvars == <<call>>
vars == <<req, cfg, pc, scope, d, w, draft, validator, stages, calls, payload,
          sq, spc, page, attempt, backoff, slept, outcomes, data, all_hits,
          seen_urls, starts, pagelens, sresult, disk, saver, searcher, call>>

-----------------------------------------------------------------------------
(* Bounds of the model *)

\* most doc hits faiss_search returns in the model
MaxDocHits == 2
\* most organic results the search API returns to _web in the model
MaxWebResults == 2
\* most organic results on one page in SpecSearch
MaxPageHits == 2
\* most pages google_search is asked for in SpecSearch
MaxPages == 2
\* most rebuilds of the index in SpecStore
MaxRebuilds == 2
\* most vectors (and metadata records) of one rebuild in SpecStore
MaxVecs == 2

\* most doc hits of a hybrid call in SpecPure
MaxHybDoc == 3
\* most web results of a hybrid call in SpecPure
MaxHybWeb == 4
\* most web results handed to _web in SpecPure
MaxWebPath == 6

\* longest hit list handed to diversify_by_domain in SpecPure
MaxDivHits == 5
\* largest max_per_domain handed to diversify_by_domain in SpecPure
MaxCap == 2

(* Program constants *)

SCOPE_THRESHOLD == 6
MAX_ANSWER_CHARS == 1200
RAG_TOP_K == 5
KeywordScore == 7
Retries == 4
MaxPerDomain == 2
DocCtxTop == 3
MergeTop == 6
LenFixedMsg == 30
LenNoIndex == 38
LenNoDoc == 20
LenNoWeb == 20
LenSep == 2

\* config.py: CTX_MAX_CHUNKS, CTX_MAX_CHARS
CTX_MAX_CHUNKS == 4
CTX_MAX_CHARS == 1500
\* read_preview(..., limit=3000) in _doc, txt[:3000] in _web, the 1500 of the merge
PreviewLimit == 3000
WebTextCut == 3000
MergeTextCut == 1500

None == [none |-> TRUE]

Min(a, b) == IF a < b THEN a ELSE b

Take(s, n) == SubSeq(s, 1, Min(n, Len(s)))

SeqsUpTo(S, n) == UNION {[1..k -> S] : k \in 0..n}

-----------------------------------------------------------------------------
(* Texts *)

FIXED_MSG == [id |-> "FIXED_MSG", unknown |-> FALSE, len |-> LenFixedMsg]
NoIndexMsg == [id |-> "NO_INDEX", unknown |-> FALSE, len |-> LenNoIndex]
NoDocMsg == [id |-> "NO_DOC", unknown |-> FALSE, len |-> LenNoDoc]
NoWebMsg == [id |-> "NO_WEB", unknown |-> FALSE, len |-> LenNoWeb]

\* what chat_with_meta can return for an answer prompt
LlmTexts == [id : {"LLM"}, unknown : BOOLEAN,
             len : {MAX_ANSWER_CHARS - LenSep - LenNoWeb, MAX_ANSWER_CHARS + 1}]

\* f"{d['answer']}\n\n{w['answer']}"
Concat(a, b) == [id |-> "CONCAT", unknown |-> a.unknown \/ b.unknown,
                 len |-> a.len + LenSep + b.len]

-----------------------------------------------------------------------------
(* Scope classifier: _parse_json_loose, in_scope_llm *)

\* Scores (tenths) the classifier's JSON can carry: outside [0,1], just below
\* the threshold and at it (the keyword fallback gives one above it).
Scores == {-5, 5, 6}

\* The "score" member of the classifier's object: a number, absent, or a
\* value float() raises ValueError on (a word).
ScoreFields == {[k |-> "num", v |-> s] : s \in Scores}
               \cup {[k |-> "absent", v |-> 0], [k |-> "bad", v |-> 0]}

\* The "label" member: as asked, in lower case, a word outside the three, or absent.
LabelFields == {"IN", "in", "OUT", "UNSURE", "MAYBE", "absent"}

\* Completion outputs for the classifier prompt. shape: "empty" (no text),
\* "nojson" (no {...} in it), "badjson" ({...} that json.loads rejects),
\* "obj" (a JSON object, possibly fenced or with text around it).
ClassifierOutputs ==
    [shape : {"empty", "nojson", "badjson"}, label : {"absent"},
     score : {[k |-> "absent", v |-> 0]}]
    \cup [shape : {"obj"}, label : LabelFields, score : ScoreFields]

\* _parse_json_loose: the object, or the exception raised (ValueError for an
\* empty text and for a text without {...}, JSONDecodeError from json.loads)
parse_json_loose(text) ==
    IF text.shape = "empty" THEN [raised |-> TRUE, etype |-> "ValueError", obj |-> None]
    ELSE IF text.shape = "nojson" THEN [raised |-> TRUE, etype |-> "ValueError", obj |-> None]
    ELSE IF text.shape = "badjson" THEN [raised |-> TRUE, etype |-> "JSONDecodeError", obj |-> None]
    ELSE [raised |-> FALSE, etype |-> "",
          obj |-> [label |-> text.label, score |-> text.score]]

\* str.upper() on the labels of the model
Upper(l) == IF l = "in" THEN "IN" ELSE l

\* the except branch of in_scope_llm, mutated: the keywords are not looked at
ScopeFallbackNoKeywords(kw, etype) ==
    [label |-> "UNSURE", score |-> 0, reason |-> "parse_error:" \o etype]

\* the except branch of in_scope_llm, mutated: the keyword confidence lies
\* below the threshold
ScopeFallbackLowScore(kw, etype) ==
    IF kw THEN [label |-> "IN", score |-> SCOPE_THRESHOLD - 1, reason |-> "keyword_hit"]
    ELSE [label |-> "UNSURE", score |-> 0, reason |-> "parse_error:" \o etype]

\* the except branch of in_scope_llm, for the exception type etype
ScopeFallback(kw, etype) ==
    IF kw THEN [label |-> "IN", score |-> KeywordScore, reason |-> "keyword_hit"]
    ELSE [label |-> "UNSURE", score |-> 0, reason |-> "parse_error:" \o etype]

\* in_scope_llm, from the query (kw) and the completion's text
in_scope_llm(kw, text) ==
    LET p == parse_json_loose(text) IN
    IF p.raised THEN ScopeFallback(kw, p.etype)
    ELSE LET l0 == IF p.obj.label = "absent" THEN "UNSURE" ELSE Upper(p.obj.label)
             label == IF l0 \in {"IN", "OUT", "UNSURE"} THEN l0 ELSE "UNSURE"
         IN IF p.obj.score.k = "bad" THEN ScopeFallback(kw, "ValueError")
            ELSE [label |-> label,
                  score |-> IF p.obj.score.k = "absent" THEN 0 ELSE p.obj.score.v,
                  reason |-> "llm"]

\* the condition of answer()'s early reject, mutated: "and" for "or"
ScopeRejectsAnd(sc) == sc.label # "IN" /\ sc.score < SCOPE_THRESHOLD

\* the condition of answer()'s early reject, mutated: the score is not looked at
ScopeRejectsLabelOnly(sc) == sc.label # "IN"

\* the condition of answer()'s early reject
ScopeRejects(sc) == sc.label # "IN" \/ sc.score < SCOPE_THRESHOLD

-----------------------------------------------------------------------------
(* Answer validator: rule_validate, validate_answer_llm *)

\* rule_validate, mutated: the evidence rule is missing
rule_validate_length_only(text, sources) ==
    IF text.len > MAX_ANSWER_CHARS THEN <<"too_long">> ELSE <<>>

\* rule_validate, mutated: ">=" for ">" in the length rule
rule_validate_strict_length(text, sources) ==
    (IF sources = <<>> /\ ~text.unknown THEN <<"no_evidence">> ELSE <<>>)
    \o (IF text.len >= MAX_ANSWER_CHARS THEN <<"too_long">> ELSE <<>>)

\* rule_validate: the list of violated rules ("no_evidence" and "too_long"
\* stand for the two identifiers of the source)
rule_validate(text, sources) ==
    (IF sources = <<>> /\ ~text.unknown THEN <<"no_evidence">> ELSE <<>>)
    \o (IF text.len > MAX_ANSWER_CHARS THEN <<"too_long">> ELSE <<>>)

\* Completion outputs for the validator prompt. shape: "empty", "nojson",
\* "nonobject" (JSON that is no object: true, a list), "fenced" (an object
\* inside a ```json fence or with text around it), "obj" (exactly an object).
\* ok: the "ok" member (true, false, a non-empty string, absent);
\* reasons: the "reasons" member (a list, null, absent).
ValidatorOutputs ==
    [shape : {"empty", "nojson", "nonobject"}, ok : {"absent"}, reasons : {"absent"}]
    \cup [shape : {"fenced"}, ok : {"true", "false"}, reasons : {"list"}]
    \cup [shape : {"obj"}, ok : {"true", "false", "str", "absent"},
          reasons : {"list", "null", "absent"}]

\* bool(o.get("ok", False))
Truthy(ok) == ok \in {"true", "str"}

ParseErrorResult == [ok |-> FALSE, reasons |-> <<"llm_validator_parse_error">>]

\* validate_answer_llm, mutated: parses with _parse_json_loose, which reads
\* the object out of a fence
validate_answer_llm_loose(vout) ==
    IF vout.shape \in {"obj", "fenced"} /\ vout.reasons # "null"
    THEN [ok |-> Truthy(vout.ok),
          reasons |-> IF vout.reasons = "list" THEN <<"reason">> ELSE <<>>]
    ELSE ParseErrorResult

\* validate_answer_llm, from the completion's text: json.loads(text.strip()),
\* o.get on the result, list() of the reasons; any exception is the parse error
validate_answer_llm(vout) ==
    IF vout.shape = "obj" /\ vout.reasons # "null"
    THEN [ok |-> Truthy(vout.ok),
          reasons |-> IF vout.reasons = "list" THEN <<"reason">> ELSE <<>>]
    ELSE ParseErrorResult

-----------------------------------------------------------------------------
(* Web search: url_key, de-duplication, diversify_by_domain *)

NoUrl == [host |-> "", path |-> ""]

\* url_key: netloc followed by path
url_key(u) == u.host \o u.path

\* lines 118-123, mutated: seen_urls is filled but never consulted
dedup_page_keep_all(hits, all, seen) ==
    [all |-> all \o hits,
     seen |-> seen \cup {url_key(hits[i].url) : i \in 1..Len(hits)}]

\* the loop "for h in hits" of google_search over one page:
\* [all |-> all_hits, seen |-> seen_urls] afterwards
RECURSIVE dedup_page(_, _, _)
dedup_page(hits, all, seen) ==
    IF hits = <<>> THEN [all |-> all, seen |-> seen]
    ELSE LET h == Head(hits)
             k == url_key(h.url)
         IN IF k # "" /\ k \in seen
            THEN dedup_page(Tail(hits), all, seen)
            ELSE dedup_page(Tail(hits), Append(all, h), seen \cup {k})

\* seen.get(dom, 0)
Count(seen, dom) == IF dom \in DOMAIN seen THEN seen[dom] ELSE 0

RECURSIVE diversify_loop(_, _, _, _)
diversify_loop(hits, seen, out, max_per_domain) ==
    IF hits = <<>> THEN out
    ELSE LET h == Head(hits)
             dom == h.url.host
         IN IF dom = ""
            THEN diversify_loop(Tail(hits), seen, Append(out, h), max_per_domain)
            ELSE IF Count(seen, dom) < max_per_domain
            THEN diversify_loop(Tail(hits),
                                [x \in DOMAIN seen \cup {dom} |->
                                    IF x = dom THEN Count(seen, dom) + 1 ELSE seen[x]],
                                Append(out, h), max_per_domain)
            ELSE diversify_loop(Tail(hits), seen, out, max_per_domain)

\* diversify_by_domain, mutated: "<=" for "<" in the test of the count
diversify_by_domain_inclusive(hits, max_per_domain) ==
    diversify_loop(hits, <<>>, <<>>, max_per_domain + 1)

\* diversify_by_domain: the loop with seen = {} and out = []
diversify_by_domain(hits, max_per_domain) ==
    diversify_loop(hits, <<>>, <<>>, max_per_domain)

-----------------------------------------------------------------------------
(* answer(): hits, sources, messages *)

Modes == {"doc", "web", "hybrid", "other"}

\* A doc hit, by what read_preview gives for its path: text, "", or an
\* exception (no path, unreadable file).
DocHit == [prev : {"text", "empty", "missing"}]

DocHitLists == SeqsUpTo(DocHit, MaxDocHits)

\* URLs of the organic results _web's search can return
MainUrls == {NoUrl, [host |-> "a", path |-> "/x"], [host |-> "a", path |-> "/x/"]}

\* normalize_organic on page p: one hit per organic result, in order
normalize_organic(urls, p) ==
    [i \in DOMAIN urls |-> [id |-> <<p, i>>, url |-> urls[i]]]

\* the sources list _doc builds from hits[:3]
doc_sources(hits) ==
    [i \in 1..Min(DocCtxTop, Len(hits)) |->
        [kind |-> "doc", idx |-> i, url |-> NoUrl, prev |-> hits[i].prev]]

\* contexts of _doc: the previews of hits[:3] that are not empty
doc_contexts(hits) ==
    SelectSeq(Take(hits, DocCtxTop), LAMBDA h : h.prev = "text")

\* _summarize_sources: one record per doc hit, then one per web hit
summarize_sources(doc_hits, web_hits) ==
    [i \in 1..Len(doc_hits) |->
        [kind |-> "doc", idx |-> i, url |-> NoUrl, prev |-> doc_hits[i].prev]]
    \o [i \in 1..Len(web_hits) |->
        [kind |-> "web", idx |-> web_hits[i].rank, url |-> web_hits[i].url, prev |-> "na"]]

\* google_search(query, pages=1) on the page the API returned
google_search_1(hits) ==
    diversify_by_domain(dedup_page(hits, <<>>, {}).all, MaxPerDomain)

\* web_hits of _web: the results among the first top_k whose fetch gave text
web_hits_of(results, fetched) ==
    SelectSeq([i \in 1..Len(results) |->
                  [rank |-> i, url |-> results[i].url, id |-> results[i].id]],
              LAMBDA h : h.rank \in fetched)

web_sources(hits) ==
    [i \in 1..Len(hits) |->
        [kind |-> "web", idx |-> hits[i].rank, url |-> hits[i].url, prev |-> "na"]]

Repeat(x, n) == [i \in 1..n |-> x]

\* line 374, mutated: the combined sources are not sliced
merge_sources_all(ds, ws) == ds \o ws

\* line 374: (d.sources + w.sources)[:6]
merge_sources(ds, ws) == Take(ds \o ws, MergeTop)

\* lines 386-387, mutated: the two labels are exchanged
failover_label_swapped(doc_hits, web_hits) ==
    IF doc_hits = <<>> /\ web_hits # <<>> THEN "web->doc"
    ELSE IF web_hits = <<>> /\ doc_hits # <<>> THEN "doc->web"
    ELSE "none"

\* the failover label of hybrid mode
failover_label(doc_hits, web_hits) ==
    IF doc_hits = <<>> /\ web_hits # <<>> THEN "doc->web"
    ELSE IF web_hits = <<>> /\ doc_hits # <<>> THEN "web->doc"
    ELSE "none"

\* {"answer": FIXED_MSG, "sources": []}
Refusal == [answer |-> FIXED_MSG, sources |-> <<>>, trace |-> FALSE]

NoValidator == [rule |-> <<>>, llm_called |-> FALSE, ok2 |-> FALSE,
                llm |-> <<>>, raw |-> None]

-----------------------------------------------------------------------------
(* answer(): the steps *)

SearchIdle ==
    /\ sq = None /\ spc = "idle" /\ page = 0 /\ attempt = 0 /\ backoff = 0
    /\ slept = <<>> /\ outcomes = <<>> /\ data = <<>> /\ all_hits = <<>>
    /\ seen_urls = {} /\ starts = <<>> /\ pagelens = <<>> /\ sresult = None

StoreIdle == disk = None /\ saver = None /\ searcher = None

CallIdle == call = None

\* a request to /api/ask with a non-empty query (an empty one is answered 400
\* at line 115 before the mode is looked at)
Init ==
    /\ req \in [kw : BOOLEAN, mode : Modes, debug : BOOLEAN]
    /\ cfg \in [debugRag : BOOLEAN]
    /\ pc = "api"
    /\ scope = None /\ d = None /\ w = None /\ draft = None
    /\ validator = NoValidator
    /\ stages = <<>> /\ calls = <<>> /\ payload = None
    /\ SearchIdle /\ StoreIdle /\ CallIdle

\* api_ask lines 117-121, mutated: the mode is not checked
ApiAskAnyMode ==
    /\ pc = "api"
    /\ pc' = "scope"
    /\ UNCHANGED <<req, cfg, scope, d, w, draft, validator, stages, calls, payload>>
    /\ UNCHANGED <<svars, stvars, fvars>>

\* api_ask lines 117-121: a mode outside doc, web, hybrid is answered 400,
\* any other request is handed to answer()
ApiAsk ==
    /\ pc = "api"
    /\ pc' = IF req.mode \notin {"doc", "web", "hybrid"} THEN "http400" ELSE "scope"
    /\ UNCHANGED <<req, cfg, scope, d, w, draft, validator, stages, calls, payload>>
    /\ UNCHANGED <<svars, stvars, fvars>>

\* an exception leaves answer() after the calls cs
Raise(cs) ==
    /\ calls' = calls \o cs
    /\ pc' = "raised"
    /\ UNCHANGED <<req, cfg, scope, d, w, draft, validator, stages, payload>>

\* lines 231-239: in_scope_llm, the scope_checked record, the early reject
AnswerScope ==
    /\ pc = "scope"
    /\ UNCHANGED <<svars, stvars, fvars>>
    /\ \/ Raise(<<"chat_scope">>)
       \/ \E text \in ClassifierOutputs :
            LET sc == in_scope_llm(req.kw, text) IN
            /\ calls' = Append(calls, "chat_scope")
            /\ scope' = sc
            /\ IF ScopeRejects(sc)
               THEN /\ stages' = stages \o <<"scope_checked", "early_reject">>
                    /\ payload' = Refusal
                    /\ pc' = "returned"
               ELSE /\ stages' = stages \o <<"scope_checked">>
                    /\ pc' = "generate"
                    /\ UNCHANGED payload
            /\ UNCHANGED <<req, cfg, d, w, draft, validator>>

\* lines 242-244, mutated: the generated record is not emitted
GeneratedNoRecord(text, sources, doc_hits, web_hits, failover) ==
    /\ draft' = [text |-> text, sources |-> sources, doc_hits |-> doc_hits,
                 web_hits |-> web_hits, failover |-> failover]
    /\ stages' = stages
    /\ pc' = "validate"

\* generate_answer returns (text, sources, doc_hits, web_hits, failover):
\* lines 242-244, the assignment and the generated record
Generated(text, sources, doc_hits, web_hits, failover) ==
    /\ draft' = [text |-> text, sources |-> sources, doc_hits |-> doc_hits,
                 web_hits |-> web_hits, failover |-> failover]
    /\ stages' = Append(stages, "generated")
    /\ pc' = "validate"

\* generate_answer, lines 390-392: a mode outside doc, web, hybrid (api_ask,
\* the only caller of answer(), lets no such mode through)
GenerateInvalidMode ==
    /\ pc = "generate"
    /\ req.mode \notin {"doc", "web", "hybrid"}
    /\ Raise(<<>>)
    /\ UNCHANGED <<svars, stvars, fvars>>

\* _doc returns dres after the calls cs
DocReturn(dres, cs) ==
    /\ d' = dres
    /\ calls' = calls \o cs
    /\ IF req.mode = "doc"
       THEN Generated(dres.answer, dres.sources, dres.doc_hits, <<>>, "none")
       ELSE UNCHANGED <<draft, stages, pc>>
    /\ UNCHANGED <<req, cfg, scope, w, validator, payload>>

\* _doc (called for mode doc, and first for mode hybrid)
Doc ==
    /\ pc = "generate"
    /\ req.mode \in {"doc", "hybrid"}
    /\ d = None
    /\ UNCHANGED <<svars, stvars, fvars>>
    /\ \/ \* faiss_exists() is false
          DocReturn([answer |-> NoIndexMsg, doc_hits |-> <<>>, sources |-> <<>>], <<>>)
       \/ \* faiss_search raises (the embedding call fails)
          Raise(<<"index_read", "embed">>)
       \/ \E hits \in DocHitLists :
            LET cs == <<"index_read", "embed", "index_search">>
                top == Take(hits, DocCtxTop)
            IN IF \E i \in 1..Len(top) : top[i].prev = "missing"
               THEN Raise(cs)
               ELSE IF doc_contexts(hits) = <<>>
               THEN DocReturn([answer |-> NoDocMsg, doc_hits |-> hits,
                               sources |-> doc_sources(hits)], cs)
               ELSE \/ Raise(cs \o <<"chat_answer">>)
                    \/ \E text \in LlmTexts :
                         DocReturn([answer |-> text, doc_hits |-> hits,
                                    sources |-> doc_sources(hits)],
                                   cs \o <<"chat_answer">>)

\* _web returns wres after the calls cs
WebReturn(wres, cs) ==
    /\ w' = wres
    /\ calls' = calls \o cs
    /\ IF req.mode = "web"
       THEN Generated(wres.answer, wres.sources, <<>>, wres.web_hits, "none")
       ELSE UNCHANGED <<draft, stages, pc>>
    /\ UNCHANGED <<req, cfg, scope, d, validator, payload>>

\* generate_answer line 370, mutated: in hybrid mode a failed search is caught
\* and the doc result alone is returned
WebSearchFailsDocOnly ==
    IF req.mode = "hybrid"
    THEN /\ calls' = Append(calls, "web_search")
         /\ Generated(d.answer, d.sources, d.doc_hits, <<>>, "none")
         /\ UNCHANGED <<req, cfg, scope, d, w, validator, payload>>
    ELSE Raise(<<"web_search">>)

\* _web line 198: google_search raises (no key, or serpapi_call out of
\* attempts); neither _web nor generate_answer (lines 365, 370) catches it
WebSearchFails == Raise(<<"web_search">>)

\* _web (called for mode web, and after _doc for mode hybrid)
Web ==
    /\ pc = "generate"
    /\ \/ req.mode = "web"
       \/ req.mode = "hybrid" /\ d # None
    /\ w = None
    /\ UNCHANGED <<svars, stvars, fvars>>
    /\ \/ WebSearchFails
       \/ \E urls \in SeqsUpTo(MainUrls, MaxWebResults) :
            LET results == Take(google_search_1(normalize_organic(urls, 0)), RAG_TOP_K)
                withUrl == {i \in 1..Len(results) : results[i].url # NoUrl}
            IN \E fetched \in SUBSET withUrl :
                 LET hits == web_hits_of(results, fetched)
                     cs == <<"web_search">> \o Repeat("page_fetch", Cardinality(withUrl))
                 IN IF hits = <<>>
                    THEN WebReturn([answer |-> NoWebMsg, web_hits |-> hits,
                                    sources |-> web_sources(hits)], cs)
                    ELSE \/ Raise(cs \o <<"chat_answer">>)
                         \/ \E text \in LlmTexts :
                              WebReturn([answer |-> text, web_hits |-> hits,
                                         sources |-> web_sources(hits)],
                                        cs \o <<"chat_answer">>)

\* generate_answer, lines 371-388: the merged context and answer of hybrid mode
HybridMerge ==
    /\ pc = "generate"
    /\ req.mode = "hybrid"
    /\ d # None /\ w # None
    /\ UNCHANGED <<svars, stvars, fvars>>
    /\ LET srcs == merge_sources(d.sources, w.sources)
           webIdx == {i \in 1..Len(srcs) : srcs[i].kind = "web" /\ srcs[i].url # NoUrl}
           docText == \E i \in 1..Len(srcs) : srcs[i].kind = "doc" /\ srcs[i].prev = "text"
           cs == Repeat("page_fetch", Cardinality(webIdx))
           sources == d.sources \o w.sources
           failover == failover_label(d.doc_hits, w.web_hits)
       IN \E refetched \in SUBSET webIdx :
            /\ IF docText \/ refetched # {}
               THEN \/ Raise(cs \o <<"chat_answer">>)
                    \/ \E text \in LlmTexts :
                         /\ Generated(text, sources, d.doc_hits, w.web_hits, failover)
                         /\ calls' = calls \o cs \o <<"chat_answer">>
                         /\ UNCHANGED <<req, cfg, scope, d, w, validator, payload>>
               ELSE /\ Generated(Concat(d.answer, w.answer), sources,
                                 d.doc_hits, w.web_hits, failover)
                    /\ calls' = calls \o cs
                    /\ UNCHANGED <<req, cfg, scope, d, w, validator, payload>>

\* line 249, mutated: the LLM stage is entered whatever the rule stage said
EntersLlmStageAlways(ok) == TRUE

\* line 249, "if not ok": the LLM stage is entered when the rule stage failed
EntersLlmStage(ok) == ~ok

\* lines 249-257, mutated: a failed rule stage rejects whatever the LLM stage says
AcceptedRuleOnly(ok, ok2) == ok

\* lines 249-257: the draft goes on to the payload when the rule stage passed
\* or, after it failed, the LLM stage passed
Accepted(ok, ok2) == ok \/ ok2

\* lines 246-259: rule_validate, then validate_answer_llm when a rule failed
Validate ==
    /\ pc = "validate"
    /\ UNCHANGED <<svars, stvars, fvars>>
    /\ LET errs == rule_validate(draft.text, draft.sources)
           ok == errs = <<>>
       IN
       IF ~EntersLlmStage(ok)
       THEN /\ validator' = NoValidator
            /\ pc' = "finish"
            /\ UNCHANGED <<req, cfg, scope, d, w, draft, stages, calls, payload>>
       ELSE \/ Raise(<<"chat_validate">>)
            \/ \E vout \in ValidatorOutputs :
                 LET r == validate_answer_llm(vout) IN
                 /\ validator' = [rule |-> errs, llm_called |-> TRUE, ok2 |-> r.ok,
                                  llm |-> r.reasons, raw |-> vout]
                 /\ calls' = Append(calls, "chat_validate")
                 /\ IF Accepted(ok, r.ok)
                    THEN /\ pc' = "finish"
                         /\ UNCHANGED <<stages, payload>>
                    ELSE /\ stages' = Append(stages, "validated")
                         /\ payload' = Refusal
                         /\ pc' = "returned"
                 /\ UNCHANGED <<req, cfg, scope, d, w, draft>>

\* line 297, mutated: either flag is enough
WithTraceEither(debug, debugRag) == debug \/ debugRag

\* the condition under which the payload gets its trace (line 297)
WithTrace(debug, debugRag) == debug /\ debugRag

\* lines 261-299, mutated: the accepted draft is validated again
FinishReenters ==
    /\ pc = "finish"
    /\ pc' = "validate"
    /\ UNCHANGED <<req, cfg, scope, d, w, draft, validator, stages, calls, payload>>
    /\ UNCHANGED <<svars, stvars, fvars>>

\* lines 261-299: the done record and the payload of an accepted draft
Finish ==
    /\ pc = "finish"
    /\ UNCHANGED <<svars, stvars, fvars>>
    /\ stages' = Append(stages, "done")
    /\ payload' = [answer |-> draft.text,
                   sources |-> summarize_sources(draft.doc_hits, draft.web_hits),
                   trace |-> WithTrace(req.debug, cfg.debugRag)]
    /\ pc' = "returned"
    /\ UNCHANGED <<req, cfg, scope, d, w, draft, validator, calls>>

Next ==
    \/ ApiAsk
    \/ AnswerScope
    \/ Doc
    \/ Web
    \/ HybridMerge
    \/ Validate
    \/ Finish

Spec == Init /\ [][Next]_vars

-----------------------------------------------------------------------------
(* Claims about answer() *)

InScope == scope # None /\ scope.label = "IN" /\ ~(scope.score < SCOPE_THRESHOLD)

OutOfScope == scope # None /\ (scope.label # "IN" \/ scope.score < SCOPE_THRESHOLD)

Returned == pc = "returned"

RulePassed == validator.rule = <<>>

LlmPassed == validator.llm_called /\ validator.ok2

RuleViolated(e) == \E i \in 1..Len(validator.rule) : validator.rule[i] = e

PipelineIdle ==
    /\ req = None /\ cfg = None /\ pc = "idle" /\ scope = None /\ d = None
    /\ w = None /\ draft = None /\ validator = NoValidator
    /\ stages = <<>> /\ calls = <<>> /\ payload = None

\* C1: whenever the scope label is not IN or the score is below the
\* threshold, in any mode, answer() returns exactly the fixed refusal message
\* with an empty sources list.
C1_ScopeRefusal ==
    OutOfScope => (Returned /\ payload = Refusal)

C1_Witness ==
    /\ Returned /\ req.mode = "hybrid"
    /\ scope.label = "IN" /\ scope.score < SCOPE_THRESHOLD
    /\ payload = Refusal

\* C2 as stated: every accepted response (not the fixed refusal) has a
\* non-empty sources list or a text containing the "unknown" marker.
C2_Original ==
    (Returned /\ payload # Refusal) =>
        (payload.sources # <<>> \/ payload.answer.unknown)

\* C2 amended: every accepted response has a non-empty sources list or a text
\* containing the "unknown" marker, except those the LLM stage accepted after
\* the rule stage found the evidence rule violated.
C2_RuleAccepted ==
    (Returned /\ payload # Refusal /\ ~(LlmPassed /\ RuleViolated("no_evidence"))) =>
        (payload.sources # <<>> \/ payload.answer.unknown)

C2_Witness ==
    /\ Returned /\ payload # Refusal /\ ~validator.llm_called
    /\ req.mode = "hybrid" /\ payload.sources # <<>> /\ ~payload.answer.unknown

\* C3: for an in-scope query answer() returns the generated draft exactly when
\* the rule stage passed or the LLM stage passed; when both failed it returns
\* the fixed refusal with empty sources and no trace, nothing of the draft.
C3_AcceptIffEitherStage ==
    (Returned /\ InScope) =>
        /\ (RulePassed \/ LlmPassed) <=>
              (/\ payload.answer = draft.text
               /\ payload.sources = summarize_sources(draft.doc_hits, draft.web_hits))
        /\ ~(RulePassed \/ LlmPassed) <=> (payload = Refusal)

C3_Witness ==
    /\ Returned /\ InScope
    /\ ~RulePassed /\ LlmPassed
    /\ payload.answer = draft.text /\ draft.doc_hits # <<>>

\* C4: when the validator completion's output is not exactly a JSON object,
\* validate_answer_llm returns (False, [llm_validator_parse_error]), no
\* exception leaves answer(), and the request ends in the fixed refusal.
C4_ValidatorFailClosed ==
    (validator.llm_called /\ validator.raw.shape # "obj") =>
        /\ ~validator.ok2
        /\ validator.llm = <<"llm_validator_parse_error">>
        /\ Returned
        /\ payload = Refusal

C4_Witness ==
    /\ validator.llm_called
    /\ validator.raw.shape = "fenced" /\ validator.raw.ok = "true"
    /\ Returned /\ payload = Refusal

\* C5 as stated: in mode doc, in scope, with no index, answer() returns the
\* fixed "no index" message with sources = [].
C5_Original ==
    (Returned /\ InScope /\ req.mode = "doc" /\ d # None /\ d.answer = NoIndexMsg) =>
        (payload.answer = NoIndexMsg /\ payload.sources = <<>>)

\* C6: the payload always has answer and sources, and has a trace only when
\* the caller passed debug = true and DEBUG_RAG is enabled.
C6_TraceNeedsBoth ==
    Returned =>
        /\ {"answer", "sources"} \subseteq DOMAIN payload
        /\ payload.trace => (req.debug /\ cfg.debugRag)

C6_Witness ==
    Returned /\ payload.trace /\ req.debug /\ cfg.debugRag

\* C7: the scope classification is the first external call of a request and
\* is made once; any other call is made only after the scope was decided IN
\* with a score not below the threshold; a request rejected on scope has made
\* no other call.
C7_ScopeFirst ==
    /\ \A i \in 1..Len(calls) : (calls[i] = "chat_scope") <=> (i = 1)
    /\ Len(calls) > 1 => InScope
    /\ OutOfScope => calls = <<"chat_scope">>

C7_Witness ==
    /\ Returned /\ InScope /\ req.mode = "hybrid"
    /\ \E i, j, k \in 1..Len(calls) :
         /\ i < j /\ j < k
         /\ calls[i] = "embed" /\ calls[j] = "web_search" /\ calls[k] = "chat_validate"

\* C8: a request that returns has emitted exactly (scope_checked,
\* early_reject), (scope_checked, generated, validated) or (scope_checked,
\* generated, done); validated only when both validation stages failed, done
\* only on acceptance.
C8_StageSequences ==
    Returned =>
        /\ stages \in {<<"scope_checked", "early_reject">>,
                       <<"scope_checked", "generated", "validated">>,
                       <<"scope_checked", "generated", "done">>}
        /\ stages[Len(stages)] = "early_reject" <=> OutOfScope
        /\ stages[Len(stages)] = "validated" <=>
              (InScope /\ ~RulePassed /\ validator.llm_called /\ ~validator.ok2)
        /\ stages[Len(stages)] = "done" <=> (InScope /\ (RulePassed \/ LlmPassed))

C8_Witness ==
    Returned /\ stages = <<"scope_checked", "generated", "validated">>

\* C12: in hybrid mode the failover label is "doc->web" exactly when the doc
\* path produced no hit and the web path at least one, "web->doc" exactly when
\* the web path produced no hit and the doc path at least one, and absent
\* ("none") when both are empty or both are non-empty.
C12_FailoverLabel ==
    (draft # None /\ req.mode = "hybrid") =>
        LET nd == Len(d.doc_hits)
            nw == Len(w.web_hits)
        IN /\ draft.failover = "doc->web" <=> (nd = 0 /\ nw >= 1)
           /\ draft.failover = "web->doc" <=> (nw = 0 /\ nd >= 1)
           /\ draft.failover = "none" <=> ((nd = 0 /\ nw = 0) \/ (nd >= 1 /\ nw >= 1))

\* a hybrid request whose doc path found nothing and whose web path found a hit
C12_Witness ==
    /\ draft # None /\ req.mode = "hybrid"
    /\ d.doc_hits = <<>> /\ Len(w.web_hits) >= 1
    /\ draft.failover = "doc->web"

\* C13: a request whose mode is not doc, web or hybrid fails with the
\* invalid-mode error (the 400 of api_ask) before any external call: it is
\* never handed to answer(), so no completion, embedding, index read, search
\* or page fetch is issued, nothing is logged and nothing is returned as an
\* answer.
C13_InvalidModeNoCall ==
    req.mode \notin {"doc", "web", "hybrid"} =>
        /\ pc \in {"api", "http400"}
        /\ calls = <<>> /\ stages = <<>> /\ payload = None

\* a request with an invalid mode has been answered 400
C13_Witness ==
    /\ req.mode = "other"
    /\ pc = "http400"
    /\ calls = <<>>

\* C16: every "nothing found" answer (the doc path with hits but no preview
\* text, the web path with no hit yielding text) is returned to the caller
\* with an empty sources list.
C16_Original ==
    (Returned /\ payload.answer \in {NoDocMsg, NoWebMsg}) => payload.sources = <<>>

\* the rule stage fails for the generated answer (stated on the answer itself)
RuleFails ==
    \/ draft.sources = <<>> /\ ~draft.text.unknown
    \/ draft.text.len > MAX_ANSWER_CHARS

ValidatorCalls == {i \in 1..Len(calls) : calls[i] = "chat_validate"}

\* C17: the LLM stage is invoked in a request if and only if the rule stage
\* failed for it: a validator completion is only ever issued for a generated
\* answer that fails the rules, and then exactly once; once validation is
\* over, an answer that fails the rules has had its validator call, and an
\* answer that passes them has had none and its recorded validator outcome
\* has an empty rule list.
C17_LlmIffRuleFailed ==
    /\ ValidatorCalls # {} => (draft # None /\ RuleFails /\ Cardinality(ValidatorCalls) = 1)
    /\ (draft # None /\ pc \in {"finish", "returned"}) =>
         IF RuleFails
         THEN ValidatorCalls # {} /\ validator.llm_called /\ validator.rule # <<>>
         ELSE ValidatorCalls = {} /\ ~validator.llm_called /\ validator.rule = <<>>

\* a request whose answer failed the rule stage and went to the LLM stage
C17_Witness ==
    /\ Returned /\ draft # None /\ RuleFails
    /\ validator.llm_called /\ ValidatorCalls # {}

\* the step in which the web search of a hybrid request fails: _doc has
\* returned, the search was called and _web returned nothing
HybridSearchFails ==
    /\ pc = "generate" /\ req.mode = "hybrid" /\ d # None /\ w = None
    /\ calls' = Append(calls, "web_search") /\ w' = None

\* C29: in hybrid mode a web search that fails makes the whole request fail:
\* the exception leaves answer() (api_ask answers ok:false), also when _doc
\* had returned hits and an answer; no payload is built, then or later.
C29_HybridSearchFailure ==
    /\ [][HybridSearchFails => (pc' = "raised" /\ payload' = None)]_vars
    /\ [][pc = "raised" => (pc' = "raised" /\ payload' = None)]_vars
    /\ [](pc = "raised" => payload = None)

\* _doc returned hits and a completion's answer, the search failed, the
\* request failed
C29_Witness ==
    /\ pc = "raised" /\ req.mode = "hybrid"
    /\ d # None /\ d.doc_hits # <<>> /\ d.answer \in LlmTexts
    /\ w = None /\ payload = None
    /\ calls # <<>> /\ calls[Len(calls)] = "web_search"

-----------------------------------------------------------------------------
(* google_search() and serpapi_call(), step by step *)

\* URLs of the organic results in SpecSearch: two that differ only by the
\* trailing slash of the path, and another path of the same host (results
\* without a URL are among those of Spec)
SearchUrls == {[host |-> "a", path |-> "/x"], [host |-> "a", path |-> "/x/"],
               [host |-> "a", path |-> "/y"]}

InitSearch ==
    /\ PipelineIdle /\ StoreIdle /\ CallIdle
    /\ sq \in [num : 1..MaxPageHits, pages : 0..MaxPages]
    /\ spc = "start" /\ page = 0 /\ attempt = 0 /\ backoff = 0
    /\ slept = <<>> /\ outcomes = <<>> /\ data = <<>> /\ all_hits = <<>>
    /\ seen_urls = {} /\ starts = <<>> /\ pagelens = <<>> /\ sresult = None

\* range(retries), mutated: one attempt short
CanAttemptOneShort(n) == n < Retries - 1

\* range(retries): another attempt is made while fewer than retries were
CanAttempt(n) == n < Retries

\* line 96: get_serpapi_key
GetKey ==
    /\ spc = "start"
    /\ \/ spc' = "raised_key"
       \/ spc' = "loop"
    /\ UNCHANGED <<sq, page, attempt, backoff, slept, outcomes, data, all_hits,
                   seen_urls, starts, pagelens, sresult>>
    /\ UNCHANGED <<pvars, stvars, fvars>>

\* lines 100-114: the head of "for p in range(pages)", the params of the page
\* and the entry into serpapi_call (backoff = 1.0)
LoopHead ==
    /\ spc = "loop"
    /\ IF page < sq.pages
       THEN /\ starts' = Append(starts, page * sq.num)
            /\ attempt' = 0 /\ backoff' = 1
            /\ slept' = <<>> /\ outcomes' = <<>>
            /\ spc' = "attempt"
       ELSE /\ spc' = "diversify"
            /\ UNCHANGED <<starts, attempt, backoff, slept, outcomes>>
    /\ UNCHANGED <<sq, page, data, all_hits, seen_urls, pagelens, sresult>>
    /\ UNCHANGED <<pvars, stvars, fvars>>

\* line 43, mutated: the delay stays what it was
NextBackoffFlat(b) == b

\* line 43: backoff *= 2
NextBackoff(b) == b * 2

\* lines 37-44: an attempt that raises; sleep(backoff), backoff *= 2
SerpAttemptFail ==
    /\ spc = "attempt"
    /\ CanAttempt(attempt)
    /\ attempt' = attempt + 1
    /\ outcomes' = Append(outcomes, "fail")
    /\ slept' = Append(slept, backoff)
    /\ backoff' = NextBackoff(backoff)
    /\ UNCHANGED <<sq, spc, page, data, all_hits, seen_urls, starts, pagelens, sresult>>
    /\ UNCHANGED <<pvars, stvars, fvars>>

\* lines 37-40 and 115: an attempt that returns; normalize_organic of its data
SerpAttemptOk ==
    /\ spc = "attempt"
    /\ CanAttempt(attempt)
    /\ \E urls \in SeqsUpTo(SearchUrls, MaxPageHits) :
         data' = normalize_organic(urls, page)
    /\ attempt' = attempt + 1
    /\ outcomes' = Append(outcomes, "ok")
    /\ spc' = "dedup"
    /\ UNCHANGED <<sq, page, backoff, slept, all_hits, seen_urls, starts, pagelens, sresult>>
    /\ UNCHANGED <<pvars, stvars, fvars>>

\* line 45: the loop ran out of attempts
SerpExhausted ==
    /\ spc = "attempt"
    /\ ~CanAttempt(attempt)
    /\ spc' = "raised_search"
    /\ UNCHANGED <<sq, page, attempt, backoff, slept, outcomes, data, all_hits,
                   seen_urls, starts, pagelens, sresult>>
    /\ UNCHANGED <<pvars, stvars, fvars>>

\* lines 126-127, mutated: the loop never breaks
ShortPageNever(n, num) == FALSE

\* line 126: the page returned fewer hits than asked for
ShortPage(n, num) == n < num

\* lines 117-127: the page's hits go through seen_urls into all_hits; a short
\* page ends the loop
DedupPage ==
    /\ spc = "dedup"
    /\ LET r == dedup_page(data, all_hits, seen_urls) IN
       /\ all_hits' = r.all
       /\ seen_urls' = r.seen
    /\ pagelens' = Append(pagelens, Len(data))
    /\ IF ShortPage(Len(data), sq.num)
       THEN spc' = "diversify" /\ UNCHANGED page
       ELSE spc' = "loop" /\ page' = page + 1
    /\ UNCHANGED <<sq, attempt, backoff, slept, outcomes, data, starts, sresult>>
    /\ UNCHANGED <<pvars, stvars, fvars>>

\* line 130: return diversify_by_domain(all_hits, max_per_domain=2)
SearchReturn ==
    /\ spc = "diversify"
    /\ sresult' = diversify_by_domain(all_hits, MaxPerDomain)
    /\ spc' = "returned"
    /\ UNCHANGED <<sq, page, attempt, backoff, slept, outcomes, data, all_hits,
                   seen_urls, starts, pagelens>>
    /\ UNCHANGED <<pvars, stvars, fvars>>

NextSearch ==
    \/ GetKey
    \/ LoopHead
    \/ SerpAttemptFail
    \/ SerpAttemptOk
    \/ SerpExhausted
    \/ DedupPage
    \/ SearchReturn

SpecSearch == InitSearch /\ [][NextSearch]_vars

-----------------------------------------------------------------------------
(* Claims about the web search connector *)

AllFailed == \A i \in 1..Len(outcomes) : outcomes[i] = "fail"

\* C9: one serpapi_call makes at most 4 attempts; no attempt follows a
\* successful one, whose result is what the call returns (also after 3
\* failures); the call raises exactly after 4 failed attempts.
C9_RetryBound ==
    /\ attempt <= 4 /\ Len(outcomes) = attempt
    /\ \A i \in 1..(Len(outcomes) - 1) : outcomes[i] = "fail"
    /\ spc = "raised_search" => (Len(outcomes) = 4 /\ AllFailed)
    /\ (Len(outcomes) = 4 /\ AllFailed) => spc \in {"attempt", "raised_search"}
    /\ (outcomes # <<>> /\ outcomes[Len(outcomes)] = "ok") =>
          spc \in {"dedup", "loop", "diversify", "returned"}

C9_Witness ==
    /\ outcomes = <<"fail", "fail", "fail", "ok">>
    /\ spc = "dedup" /\ data # <<>>

\* the path without a trailing slash
StripSlash(path) == IF path = "/x/" THEN "/x" ELSE path

SlashTwins(u1, u2) ==
    /\ u1 # u2
    /\ u1.host = u2.host
    /\ StripSlash(u1.path) = StripSlash(u2.path)

\* C10 as stated: of two hits whose URLs differ only by a trailing slash of
\* the path, google_search retains only the first.
C10_Original ==
    spc = "returned" =>
        ~ \E i, j \in 1..Len(sresult) : i < j /\ SlashTwins(sresult[i].url, sresult[j].url)

Keys(hits) == {url_key(hits[i].url) : i \in 1..Len(hits)}

NoSharedKey(hits) ==
    \A i, j \in 1..Len(hits) :
        (i # j /\ url_key(hits[i].url) # "") => url_key(hits[i].url) # url_key(hits[j].url)

\* the hits of the page that are new: their key is neither that of a hit
\* retained from this or an earlier page nor that of an earlier hit of the page
NewOnPage ==
    SelectSeq(data, LAMBDA h :
        /\ url_key(h.url) \notin Keys(all_hits)
        /\ \A j \in 1..(h.id[2] - 1) : url_key(data[j].url) # url_key(h.url))

\* C21: across the pages of one google_search call no two retained hits have
\* the same non-empty (host, path) key: each page appends to the retained
\* hits, in page order, exactly its hits whose key has not occurred before on
\* this or an earlier page, and the hits retained earlier stay where they are.
C21_DedupAcrossPages ==
    /\ [](NoSharedKey(all_hits) /\ (spc = "returned" => NoSharedKey(sresult)))
    /\ [][spc = "dedup" => all_hits' = all_hits \o NewOnPage]_vars

\* the second page repeated a hit of the first page, and it was dropped
C21_Witness ==
    /\ Len(pagelens) = 2 /\ pagelens[2] >= 1
    /\ Len(all_hits) < pagelens[1] + pagelens[2]
    /\ \E i \in 1..Len(data) : data[i].id[1] = 1 /\ data[i] \notin {all_hits[j] : j \in 1..Len(all_hits)}
                                /\ url_key(data[i].url) \in Keys(SelectSeq(all_hits, LAMBDA h : h.id[1] = 0))

\* C22: google_search requests its pages in increasing offset order (the
\* i-th request has start = (i-1) * num), requests at most the configured
\* number of pages, and requests no page after one that returned fewer
\* results than the page size.
C22_Pagination ==
    /\ Len(starts) <= sq.pages
    /\ \A i \in 1..Len(starts) : starts[i] = (i - 1) * sq.num
    /\ \A i \in 1..(Len(starts) - 1) : starts[i] < starts[i + 1]
    /\ Len(pagelens) <= Len(starts) /\ Len(starts) <= Len(pagelens) + 1
    /\ \A i \in 1..(Len(starts) - 1) : pagelens[i] >= sq.num

\* two pages were allowed, the first came back short and the search returned
\* after that single request
C22_Witness ==
    /\ sq.pages = 2 /\ sq.num = 2
    /\ spc = "returned"
    /\ starts = <<0>> /\ pagelens = <<1>>

\* the time serpapi_call has slept so far
RECURSIVE SumSeq(_)
SumSeq(s) == IF s = <<>> THEN 0 ELSE Head(s) + SumSeq(Tail(s))

\* C28: serpapi_call sleeps after every failed attempt, the last one included,
\* with the delays 1, 2, 4, 8 in that order: a call whose 4 attempts all
\* failed has waited 15 units when it raises, and a call that succeeds on
\* attempt n has waited 2^(n-1) - 1 units.
C28_BackoffSchedule ==
    /\ Len(slept) = Len(SelectSeq(outcomes, LAMBDA o : o = "fail"))
    /\ \A i \in 1..Len(slept) : slept[i] = 2^(i - 1)
    /\ spc = "raised_search" => (slept = <<1, 2, 4, 8>> /\ SumSeq(slept) = 15)
    /\ spc = "dedup" => (attempt <= 4 /\ SumSeq(slept) = 2^(attempt - 1) - 1)

\* the fourth attempt failed as well: the call slept 8 after it and raised
\* after 15 units
C28_Witness ==
    /\ spc = "raised_search"
    /\ outcomes = <<"fail", "fail", "fail", "fail">>
    /\ slept[4] = 8 /\ SumSeq(slept) = 15

\* the third attempt succeeded after 1 + 2 units of sleep
C28_WitnessThird ==
    /\ spc = "dedup" /\ attempt = 3
    /\ slept = <<1, 2>>

-----------------------------------------------------------------------------
(* The index directory: faiss_save() and faiss_search(), step by step *)

\* a file that does not exist
NoIndexFile == [gen |-> 0, n |-> 0, whole |-> FALSE]
NoMetaFile == [gen |-> 0, lines |-> 0]

\* faiss_exists(): both paths exist
faiss_exists == disk.idx.gen # 0 /\ disk.meta.gen # 0

\* the index directory is empty, no rebuild and no search is running
InitStore ==
    /\ PipelineIdle /\ SearchIdle /\ CallIdle
    /\ disk = [idx |-> NoIndexFile, meta |-> NoMetaFile]
    /\ saver = [pc |-> "idle", gen |-> 0, n |-> 0, failed |-> FALSE]
    /\ searcher = [pc |-> "idle", idx |-> NoIndexFile, meta |-> NoMetaFile]

\* ingest_local_dir calls faiss_save with n vectors and n metadata records
SaveBegin ==
    /\ saver.pc = "idle"
    /\ saver.gen < MaxRebuilds
    /\ \E n \in 1..MaxVecs :
         saver' = [pc |-> "write_index", gen |-> saver.gen + 1, n |-> n, failed |-> FALSE]
    /\ UNCHANGED <<disk, searcher>>
    /\ UNCHANGED <<pvars, svars, fvars>>

\* line 35: faiss.write_index(index, idx_path) writes the index file in place
SaveWriteIndex ==
    /\ saver.pc = "write_index"
    /\ disk' = [disk EXCEPT !.idx = [gen |-> saver.gen, n |-> saver.n, whole |-> TRUE]]
    /\ saver' = [saver EXCEPT !.pc = "open_meta"]
    /\ UNCHANGED searcher
    /\ UNCHANGED <<pvars, svars, fvars>>

\* line 36: open(meta_path, "w") creates or truncates the metadata file in place
SaveOpenMeta ==
    /\ saver.pc = "open_meta"
    /\ disk' = [disk EXCEPT !.meta = [gen |-> saver.gen, lines |-> 0]]
    /\ saver' = [saver EXCEPT !.pc = "write_meta"]
    /\ UNCHANGED searcher
    /\ UNCHANGED <<pvars, svars, fvars>>

\* lines 37-38: one record is written, or the loop has ended and the file is closed
SaveWriteMeta ==
    /\ saver.pc = "write_meta"
    /\ IF disk.meta.lines < saver.n
       THEN /\ disk' = [disk EXCEPT !.meta.lines = @ + 1]
            /\ UNCHANGED saver
       ELSE /\ saver' = [saver EXCEPT !.pc = "idle"]
            /\ UNCHANGED disk
    /\ UNCHANGED searcher
    /\ UNCHANGED <<pvars, svars, fvars>>

\* faiss_save fails (an I/O error, the process is stopped): nothing is undone;
\* a failure inside write_index may leave a part of the index file
SaveFail ==
    /\ saver.pc \in {"write_index", "open_meta", "write_meta"}
    /\ saver' = [saver EXCEPT !.pc = "idle", !.failed = TRUE]
    /\ \/ UNCHANGED disk
       \/ /\ saver.pc = "write_index"
          /\ disk' = [disk EXCEPT !.idx = [gen |-> saver.gen, n |-> saver.n, whole |-> FALSE]]
    /\ UNCHANGED searcher
    /\ UNCHANGED <<pvars, svars, fvars>>

\* _doc line 159: faiss_search is called only after faiss_exists() was true
SearchBegin ==
    /\ searcher.pc \in {"idle", "no_index", "raised", "done"}
    /\ searcher' = [pc |-> IF faiss_exists THEN "read_index" ELSE "no_index",
                    idx |-> NoIndexFile, meta |-> NoMetaFile]
    /\ UNCHANGED <<disk, saver>>
    /\ UNCHANGED <<pvars, svars, fvars>>

\* line 45: faiss.read_index(idx_path); a missing or partial file raises
SearchReadIndex ==
    /\ searcher.pc = "read_index"
    /\ searcher' = IF disk.idx.whole
                   THEN [searcher EXCEPT !.pc = "read_meta", !.idx = disk.idx]
                   ELSE [searcher EXCEPT !.pc = "raised"]
    /\ UNCHANGED <<disk, saver>>
    /\ UNCHANGED <<pvars, svars, fvars>>

\* lines 46-47: the metadata file is read, every line that is in it
SearchReadMeta ==
    /\ searcher.pc = "read_meta"
    /\ searcher' = IF disk.meta.gen # 0
                   THEN [searcher EXCEPT !.pc = "done", !.meta = disk.meta]
                   ELSE [searcher EXCEPT !.pc = "raised"]
    /\ UNCHANGED <<disk, saver>>
    /\ UNCHANGED <<pvars, svars, fvars>>

NextStore ==
    \/ SaveBegin
    \/ SaveWriteIndex
    \/ SaveOpenMeta
    \/ SaveWriteMeta
    \/ SaveFail
    \/ SearchBegin
    \/ SearchReadIndex
    \/ SearchReadMeta

SpecStore == InitStore /\ [][NextStore]_vars

-----------------------------------------------------------------------------
(* Claims about the index directory *)

\* C14: after a faiss_save that failed between its writes, faiss_exists() is
\* never true while the index file and the metadata file come from different
\* rebuilds, for the first rebuild and for a rebuild over an existing pair.
C14_Original ==
    (saver.pc = "idle" /\ saver.failed) =>
        ~(faiss_exists /\ disk.idx.gen # disk.meta.gen)

\* C15: a faiss_search running concurrently with a faiss_save reads an index
\* and a metadata list of the same rebuild: both old or both new, never the
\* new index with the old metadata or the reverse.
C15_Original ==
    searcher.pc = "done" => searcher.idx.gen = searcher.meta.gen

\* C25: when no faiss_save is running and faiss_exists() is true, the index
\* file holds as many vectors as the metadata file holds records, so every
\* position a search of that index returns has a metadata record.
C25_Original ==
    (saver.pc = "idle" /\ faiss_exists) => disk.idx.n = disk.meta.lines

-----------------------------------------------------------------------------
(* Contexts: _summarize, _doc, _web and the hybrid merge as functions of what *)
(* the index, the search, the page fetches and the previews give              *)

\* a text read from a page or a file: its length and whether it is made of
\* white space only; "" is NoText
NoText == [len |-> 0, blank |-> FALSE]

\* text[:n]
Cut(t, n) == [t EXCEPT !.len = Min(t.len, n)]

\* " ".join(c.split()): a text of white space becomes ""
Norm(t) == IF t.blank THEN NoText ELSE t

\* _summarize lines 78-82, mutated: the contexts are not sliced to max_chunks
normed_all(contexts) ==
    SelectSeq([i \in 1..Len(contexts) |->
                  [contexts[i] EXCEPT !.text = Cut(Norm(@), CTX_MAX_CHARS)]],
              LAMBDA c : c.text.len > 0)

\* _summarize lines 78-82: the snippets that go into the prompt
normed(contexts) ==
    SelectSeq([i \in 1..Min(CTX_MAX_CHUNKS, Len(contexts)) |->
                  [contexts[i] EXCEPT !.text = Cut(Norm(@), CTX_MAX_CHARS)]],
              LAMBDA c : c.text.len > 0)

\* the text a completion returns for an answer prompt
SomeLlmText == [id |-> "LLM", unknown |-> FALSE, len |-> 1178]

\* the text of an indexed file that has text (longer than any preview limit)
DocFileText == [len |-> 5000, blank |-> FALSE]

\* read_preview(path, limit) for a hit of the model
read_preview(hit, limit) == IF hit.prev = "text" THEN Cut(DocFileText, limit) ELSE NoText

Tag(by, ops) == [i \in 1..Len(ops) |-> [by |-> by, op |-> ops[i]]]

NonEmpty(contexts) == SelectSeq(contexts, LAMBDA c : c.text.len > 0)

\* _summarize(contexts) if contexts else msg: the answer, what was handed to
\* the completion and the call
SummarizeOr(contexts, msg) ==
    IF contexts # <<>>
    THEN [answer |-> SomeLlmText, handed |-> normed(contexts), chat |-> <<"chat_answer">>]
    ELSE [answer |-> msg, handed |-> <<>>, chat |-> <<>>]

\* _doc, lines 158-192, for an index that exists (index) and the hits it gives
doc_path(index, hits) ==
    IF ~index
    THEN [answer |-> NoIndexMsg, doc_hits |-> <<>>, sources |-> <<>>,
          contexts |-> <<>>, handed |-> <<>>, calls |-> <<>>]
    ELSE LET top == Take(hits, DocCtxTop)
             contexts == NonEmpty([i \in 1..Len(top) |->
                             [kind |-> "doc", idx |-> i,
                              text |-> read_preview(top[i], PreviewLimit)]])
             s == SummarizeOr(contexts, NoDocMsg)
         IN [answer |-> s.answer, doc_hits |-> hits, sources |-> doc_sources(hits),
             contexts |-> contexts, handed |-> s.handed,
             calls |-> Tag("doc", <<"index_read", "embed", "index_search">> \o s.chat)]

\* _web, lines 196-216, mutated: results is not sliced to top_k
web_path_all(results, pages_text) ==
    LET withUrl == {i \in 1..Len(results) : results[i].url # NoUrl}
        fetched == {i \in withUrl : pages_text[i].len > 0}
        hits == web_hits_of(results, fetched)
        contexts == [j \in 1..Len(hits) |->
                        [kind |-> "web", idx |-> hits[j].rank,
                         text |-> Cut(pages_text[hits[j].rank], WebTextCut)]]
        s == SummarizeOr(contexts, NoWebMsg)
    IN [answer |-> s.answer, web_hits |-> hits, sources |-> web_sources(hits),
        contexts |-> contexts, handed |-> s.handed,
        calls |-> Tag("web", <<"web_search">>
                             \o Repeat("page_fetch", Cardinality(withUrl)) \o s.chat)]

\* _web, lines 196-216, for the results google_search returns and the text
\* pages_text[i] that _fetch_text gives for the i-th ("" when the fetch fails)
web_path(results, pages_text) ==
    LET top == Take(results, RAG_TOP_K)
        withUrl == {i \in 1..Len(top) : top[i].url # NoUrl}
        fetched == {i \in withUrl : pages_text[i].len > 0}
        hits == web_hits_of(top, fetched)
        contexts == [j \in 1..Len(hits) |->
                        [kind |-> "web", idx |-> hits[j].rank,
                         text |-> Cut(pages_text[hits[j].rank], WebTextCut)]]
        s == SummarizeOr(contexts, NoWebMsg)
    IN [answer |-> s.answer, web_hits |-> hits, sources |-> web_sources(hits),
        contexts |-> contexts, handed |-> s.handed,
        calls |-> Tag("web", <<"web_search">>
                             \o Repeat("page_fetch", Cardinality(withUrl)) \o s.chat)]

\* lines 375-380: the text one source contributes to the merged context;
\* repage[r] is what the second _fetch_text gives for the web hit of rank r
merge_text(s, repage) ==
    IF s.kind = "web" /\ s.url # NoUrl THEN Cut(repage[s.idx], MergeTextCut)
    ELSE IF s.kind = "doc" THEN read_preview(s, MergeTextCut)
    ELSE NoText

\* generate_answer lines 371-388: the merge of the two results
hybrid_merge(dres, wres, repage) ==
    LET srcs == merge_sources(dres.sources, wres.sources)
        contexts == NonEmpty([i \in 1..Len(srcs) |->
                        [kind |-> srcs[i].kind, idx |-> srcs[i].idx,
                         text |-> merge_text(srcs[i], repage)]])
        nweb == Cardinality({i \in 1..Len(srcs) : srcs[i].kind = "web" /\ srcs[i].url # NoUrl})
        s == SummarizeOr(contexts, Concat(dres.answer, wres.answer))
    IN [text |-> s.answer, sources |-> dres.sources \o wres.sources,
        failover |-> failover_label(dres.doc_hits, wres.web_hits),
        contexts |-> contexts, handed |-> s.handed,
        calls |-> Tag("merge", Repeat("page_fetch", nweb) \o s.chat)]

\* generate_answer lines 368-388: _doc, then _web, then the merge
generate_hybrid(index, hits, results, pages_text, repage) ==
    LET dres == doc_path(index, hits)
        wres == web_path(results, pages_text)
        m == hybrid_merge(dres, wres, repage)
    IN [d |-> dres, w |-> wres, m |-> m, calls |-> dres.calls \o wres.calls \o m.calls]

-----------------------------------------------------------------------------
(* The gateways of llm_utils: get_client, embed_texts_with_meta and          *)
(* chat_with_meta as functions of the process state and of what the service  *)
(* does with the one request                                                 *)

\* get_client lines 9-16, mutated: the key is not looked at
get_client_unchecked(cached, key) == [client |-> TRUE, error |-> "none"]

\* get_client lines 9-16: the cached client, or a new one when OPENAI_API_KEY
\* is set, or RuntimeError
get_client(cached, key) ==
    IF ~cached /\ ~key
    THEN [client |-> FALSE, error |-> "RuntimeError"]
    ELSE [client |-> TRUE, error |-> "none"]

\* what the service does with a request: it answers, it answers with an empty
\* list (no choices, no data), or the client library raises
ServiceOutcomes == {"ok", "empty", "APIError", "APITimeoutError"}

\* embed_texts_with_meta lines 25-45: the error raised ("none" when it
\* returns), the external calls issued, and whether a client is cached after
embed_texts_with_meta(cached, key, outcome) ==
    LET c == get_client(cached, key) IN
    IF ~c.client
    THEN [raised |-> c.error, external |-> <<>>, cached |-> cached]
    ELSE [raised |-> IF outcome \in {"ok", "empty"} THEN "none" ELSE outcome,
          external |-> <<"embeddings.create">>, cached |-> TRUE]

\* chat_with_meta lines 54-88: as above; resp.choices[0] of an answer without
\* choices raises IndexError
chat_with_meta(cached, key, outcome) ==
    LET c == get_client(cached, key) IN
    IF ~c.client
    THEN [raised |-> c.error, external |-> <<>>, cached |-> cached]
    ELSE [raised |-> IF outcome = "ok" THEN "none"
                     ELSE IF outcome = "empty" THEN "IndexError" ELSE outcome,
          external |-> <<"chat.completions.create">>, cached |-> TRUE]

-----------------------------------------------------------------------------
(* Pure functions, each applied once to arguments drawn from bounded sets *)

\* URLs of the hits handed to diversify_by_domain: two hosts and no URL
DivUrls == {[host |-> "a", path |-> "/x"], [host |-> "b", path |-> "/x"], NoUrl}

\* arguments of diversify_by_domain: the hit with id <<0, i>> is the i-th
DivArgs == [hits : {normalize_organic(urls, 0) : urls \in SeqsUpTo(DivUrls, MaxDivHits)},
            cap : 0..MaxCap]

Pending(fn, arg) == [fn |-> fn, arg |-> arg, done |-> FALSE, out |-> None]

\* arguments of rule_validate: texts with and without the "unknown" marker,
\* empty, just below, at and just above the ceiling; the sources _doc builds
RuleArgs == [text : [id : {"LLM"}, unknown : BOOLEAN,
                     len : {0, MAX_ANSWER_CHARS - 1, MAX_ANSWER_CHARS, MAX_ANSWER_CHARS + 1}],
             sources : {doc_sources(h) : h \in DocHitLists}]

\* arguments of in_scope_llm: the query and the completion's text, with the
\* scores 0, 1 and 1.5 besides those of ClassifierOutputs
ScopeArgs == [kw : BOOLEAN,
              text : ClassifierOutputs
                     \cup [shape : {"obj"}, label : LabelFields,
                           score : {[k |-> "num", v |-> s] : s \in {0, 10, 15}}]]

\* hosts of the web results of SpecPure, one per rank
GenHosts == <<"a", "b", "c", "d", "e", "f", "g", "h">>

\* the result of rank i, with or without a URL
GenResult(i, url) ==
    [id |-> <<0, i>>,
     url |-> IF url THEN [host |-> GenHosts[i], path |-> "/x"] ELSE NoUrl]

GenResults(webs) == [i \in 1..Len(webs) |-> GenResult(i, webs[i].url)]

\* what the page of a result gives: nothing, white space, a long text
PageTexts == {NoText, [len |-> 7, blank |-> TRUE], [len |-> 5000, blank |-> FALSE]}

\* a web result of a hybrid call: no URL, a page without text, or a page
\* with text whose second fetch gives one of PageTexts
HybWebs == [url : {FALSE}, text : {NoText}, retext : {NoText}]
           \cup [url : {TRUE}, text : {NoText}, retext : {NoText}]
           \cup [url : {TRUE}, text : {[len |-> 5000, blank |-> FALSE]}, retext : PageTexts]

\* arguments of the hybrid branch of generate_answer
HybridArgs == [index : {TRUE},
               hits : SeqsUpTo([prev : {"text", "empty"}], MaxHybDoc),
               webs : SeqsUpTo(HybWebs, MaxHybWeb)]
              \cup [index : {FALSE}, hits : {<<>>}, webs : SeqsUpTo(HybWebs, MaxHybWeb)]

\* a web result handed to _web: no URL, or a URL whose page gives one of PageTexts
WebPathArgs == [webs : SeqsUpTo([url : {FALSE}, text : {NoText}]
                                \cup [url : {TRUE}, text : PageTexts], MaxWebPath)]

\* arguments of a gateway: whether a client is cached, whether OPENAI_API_KEY
\* is set (a cached client was created with the key set), the service's outcome
GatewayArgs == {a \in [cached : BOOLEAN, key : BOOLEAN, outcome : ServiceOutcomes] :
                    a.cached => a.key}

\* one function is about to be called with one of its arguments
InitPure ==
    /\ PipelineIdle /\ SearchIdle /\ StoreIdle
    /\ \/ \E a \in DivArgs : call = Pending("diversify_by_domain", a)
       \/ \E a \in GatewayArgs : call = Pending("embed_texts_with_meta", a)
       \/ \E a \in GatewayArgs : call = Pending("chat_with_meta", a)
       \/ \E a \in WebPathArgs : call = Pending("_web", a)
       \/ \E a \in HybridArgs : call = Pending("generate_hybrid", a)
       \/ \E a \in RuleArgs : call = Pending("rule_validate", a)
       \/ \E a \in ScopeArgs : call = Pending("in_scope_llm", a)

\* the function returns out
Return(out) ==
    /\ ~call.done
    /\ call' = [call EXCEPT !.done = TRUE, !.out = out]
    /\ UNCHANGED <<pvars, svars, stvars>>

ApplyDiversify ==
    /\ call.fn = "diversify_by_domain"
    /\ Return(diversify_by_domain(call.arg.hits, call.arg.cap))

ApplyRuleValidate ==
    /\ call.fn = "rule_validate"
    /\ Return(rule_validate(call.arg.text, call.arg.sources))

ApplyInScope ==
    /\ call.fn = "in_scope_llm"
    /\ Return(in_scope_llm(call.arg.kw, call.arg.text))

ApplyHybrid ==
    /\ call.fn = "generate_hybrid"
    /\ LET a == call.arg IN
       Return(generate_hybrid(a.index, a.hits, GenResults(a.webs),
                              [i \in 1..Len(a.webs) |-> a.webs[i].text],
                              [i \in 1..Len(a.webs) |-> a.webs[i].retext]))

ApplyWeb ==
    /\ call.fn = "_web"
    /\ LET a == call.arg IN
       Return(web_path(GenResults(a.webs), [i \in 1..Len(a.webs) |-> a.webs[i].text]))

ApplyEmbed ==
    /\ call.fn = "embed_texts_with_meta"
    /\ Return(embed_texts_with_meta(call.arg.cached, call.arg.key, call.arg.outcome))

ApplyChat ==
    /\ call.fn = "chat_with_meta"
    /\ Return(chat_with_meta(call.arg.cached, call.arg.key, call.arg.outcome))

NextPure ==
    \/ ApplyDiversify
    \/ ApplyEmbed
    \/ ApplyChat
    \/ ApplyWeb
    \/ ApplyHybrid
    \/ ApplyRuleValidate
    \/ ApplyInScope

SpecPure == InitPure /\ [][NextPure]_vars

-----------------------------------------------------------------------------
(* Claims about the pure functions *)

Returned_(fn) == call.fn = fn /\ call.done

\* the position in the input of the i-th hit of a list
Pos(hs, i) == hs[i].id[2]

\* the hits before position i of the input that have the host of the i-th
Before(hs, i) == {j \in 1..(i - 1) : hs[j].url.host = hs[i].url.host}

\* the positions of the input that were kept
Kept(out) == {Pos(out, j) : j \in 1..Len(out)}

\* C11: diversify_by_domain returns a subsequence of its input in the
\* original order, in which every non-empty host occurs at most
\* max_per_domain times and the kept hits of a host are its earliest ones
\* (a hit with a host is kept exactly when fewer than max_per_domain hits of
\* that host precede it); five hits of one host with cap 2 give the first two.
C11_Diversify ==
    Returned_("diversify_by_domain") =>
        LET hs == call.arg.hits
            cap == call.arg.cap
            out == call.out
        IN /\ \A j \in 1..Len(out) : Pos(out, j) \in 1..Len(hs) /\ out[j] = hs[Pos(out, j)]
           /\ \A j \in 1..(Len(out) - 1) : Pos(out, j) < Pos(out, j + 1)
           /\ \A h \in {"a", "b"} :
                Cardinality({j \in 1..Len(out) : out[j].url.host = h}) <= cap
           /\ \A i \in 1..Len(hs) :
                hs[i].url.host # "" =>
                    (i \in Kept(out) <=> Cardinality(Before(hs, i)) < cap)
           /\ (Len(hs) = 5 /\ cap = 2 /\ \A i \in 1..5 : hs[i].url.host = "a")
                => out = SubSeq(hs, 1, 2)

\* five hits of one host, cap 2, and the call has returned
C11_Witness ==
    /\ Returned_("diversify_by_domain")
    /\ Len(call.arg.hits) = 5 /\ call.arg.cap = 2
    /\ \A i \in 1..5 : call.arg.hits[i].url.host = "a"
    /\ Len(call.out) = 2

\* C18: rule_validate passes (returns no violated rule) exactly when the
\* sources are non-empty or the text contains the "unknown" marker, and the
\* text is not longer than the ceiling (1200 by default); otherwise it returns
\* the violated rules in the order no-evidence first, too-long second.
C18_RuleValidate ==
    Returned_("rule_validate") =>
        LET text == call.arg.text
            evidence == call.arg.sources # <<>> \/ text.unknown
            fits == text.len <= 1200
        IN /\ call.out = <<>> <=> (evidence /\ fits)
           /\ (~evidence /\ fits) => call.out = <<"no_evidence">>
           /\ (evidence /\ ~fits) => call.out = <<"too_long">>
           /\ (~evidence /\ ~fits) => call.out = <<"no_evidence", "too_long">>

\* a text longer than the ceiling, without the marker and without sources,
\* has been given both violations
C18_Witness ==
    /\ Returned_("rule_validate")
    /\ call.arg.text.len = 1201 /\ ~call.arg.text.unknown /\ call.arg.sources = <<>>
    /\ Len(call.out) = 2

\* the completion's text is one _parse_json_loose raises on
Unparsable(text) == text.shape \in {"empty", "nojson", "badjson"}

\* C19: when the classifier output cannot be parsed, in_scope_llm returns
\* (IN, 0.7, "keyword_hit") if the query contains one of the in-domain
\* keywords and (UNSURE, 0, a parse-error reason) otherwise: label and score
\* are determined by the query alone.
C19_ParseFallback ==
    (Returned_("in_scope_llm") /\ Unparsable(call.arg.text)) =>
        IF call.arg.kw
        THEN call.out = [label |-> "IN", score |-> 7, reason |-> "keyword_hit"]
        ELSE /\ call.out.label = "UNSURE" /\ call.out.score = 0
             /\ call.out.reason \in {"parse_error:ValueError", "parse_error:JSONDecodeError"}

\* a query with a keyword, a completion without JSON, and the call has returned IN
C19_Witness ==
    /\ Returned_("in_scope_llm")
    /\ call.arg.kw /\ call.arg.text.shape = "nojson"
    /\ call.out.label = "IN"

\* C20: every decision the classifier returns, for any completion output, has
\* a label among IN, OUT, UNSURE and a score within [0, 1] (0..10 in tenths).
C20_Original ==
    Returned_("in_scope_llm") =>
        /\ call.out.label \in {"IN", "OUT", "UNSURE"}
        /\ call.out.score >= 0 /\ call.out.score <= 10

\* the combined doc-then-web sources of a hybrid call and, for one of them,
\* whether it gives text to the merged context (stated on the arguments)
Combined == call.out.d.sources \o call.out.w.sources

GivesText(s) ==
    \/ s.kind = "doc" /\ call.arg.hits[s.idx].prev = "text"
    \/ s.kind = "web" /\ call.arg.webs[s.idx].retext.len > 0

CallsBy(by) == {i \in 1..Len(call.out.calls) : call.out.calls[i].by = by}

\* C23: in hybrid mode every call of the doc path precedes every call of the
\* web path (and both precede the merge); the merged context holds exactly
\* the texts of those of the first 6 combined doc-then-web sources that give
\* text, in that order; the answer is the concatenation of the two
\* single-source answers if and only if that merged context is empty, and
\* otherwise a fresh completion over the merged context.
C23_HybridMerge ==
    Returned_("generate_hybrid") =>
        LET out == call.out
            m == out.m
            first6 == {i \in 1..Len(Combined) : i <= 6}
            giving == {i \in first6 : GivesText(Combined[i])}
            chats == {i \in CallsBy("merge") : out.calls[i].op = "chat_answer"}
        IN /\ \A i \in CallsBy("doc"), j \in CallsBy("web") : i < j
           /\ \A i \in CallsBy("web"), j \in CallsBy("merge") : i < j
           /\ Len(m.contexts) = Cardinality(giving)
           /\ \A k \in 1..Len(m.contexts) :
                \E i \in giving :
                    /\ Combined[i].kind = m.contexts[k].kind
                    /\ Combined[i].idx = m.contexts[k].idx
                    /\ Cardinality({j \in giving : j < i}) = k - 1
           /\ m.text = Concat(out.d.answer, out.w.answer) <=> giving = {}
           /\ giving # {} => (m.text = SomeLlmText /\ Cardinality(chats) = 1
                              /\ m.handed = normed(m.contexts))
           /\ giving = {} => chats = {}

\* three doc sources and four web sources of which only the seventh would
\* give text: the merged context is empty and the answer is the concatenation
C23_Witness ==
    /\ Returned_("generate_hybrid")
    /\ Len(Combined) = 7
    /\ GivesText(Combined[7]) /\ \A i \in 1..6 : ~GivesText(Combined[i])
    /\ call.out.m.text.id = "CONCAT"

\* the ranks among the first top-k results of a _web call that have a URL,
\* and those of them whose page gave a non-empty text
TopWithUrl == {i \in 1..Len(call.arg.webs) : i <= RAG_TOP_K /\ call.arg.webs[i].url}

TopYielding == {i \in TopWithUrl : call.arg.webs[i].text.len > 0}

OpsOf(op) == {i \in 1..Len(call.out.calls) : call.out.calls[i].op = op}

\* C24: in the web path a page fetch that fails or gives no text drops only
\* that hit: every one of the first top-k results that has a URL is fetched,
\* and the returned web hits and web sources are, in rank order, exactly the
\* results among the first top-k whose fetch gave non-empty text; when none
\* did, the answer is the fixed "nothing found" message and no completion
\* call is made.
C24_WebPath ==
    Returned_("_web") =>
        LET out == call.out IN
        /\ Cardinality(OpsOf("page_fetch")) = Cardinality(TopWithUrl)
        /\ Len(out.web_hits) = Cardinality(TopYielding)
        /\ Len(out.sources) = Len(out.web_hits)
        /\ \A k \in 1..Len(out.web_hits) :
             LET r == out.web_hits[k].rank IN
             /\ r \in TopYielding
             /\ Cardinality({j \in TopYielding : j < r}) = k - 1
             /\ out.web_hits[k].url = GenResult(r, TRUE).url
             /\ out.sources[k].kind = "web" /\ out.sources[k].url = out.web_hits[k].url
        /\ IF TopYielding = {}
           THEN out.answer = NoWebMsg /\ OpsOf("chat_answer") = {}
           ELSE out.answer = SomeLlmText /\ Cardinality(OpsOf("chat_answer")) = 1

\* six results: the fetch of the first gave nothing, the second gave text and
\* was kept, the sixth gave text but lies beyond top-k
C24_Witness ==
    /\ Returned_("_web")
    /\ Len(call.arg.webs) = 6
    /\ call.arg.webs[1].url /\ call.arg.webs[1].text = NoText
    /\ call.arg.webs[2].url /\ call.arg.webs[2].text.len > 0
    /\ call.arg.webs[6].url /\ call.arg.webs[6].text.len > 0
    /\ call.out.web_hits[1].rank = 2
    /\ \A k \in 1..Len(call.out.web_hits) : call.out.web_hits[k].rank # 6

\* no result gave text: the fixed message, no completion
C24_WitnessNothing ==
    /\ Returned_("_web")
    /\ Len(call.arg.webs) = 2 /\ TopWithUrl # {} /\ TopYielding = {}
    /\ call.out.answer = NoWebMsg

\* the contexts handed to the completion by the calls of the returned function
Handed ==
    IF call.fn = "_web" THEN {call.out.handed}
    ELSE {call.out.d.handed, call.out.w.handed, call.out.m.handed}

\* the snippets of one source are in rank order and no doc snippet follows a
\* web snippet
InSourceOrder(h) ==
    \A i, j \in 1..Len(h) :
        i < j => /\ (h[i].kind = h[j].kind => h[i].idx < h[j].idx)
                 /\ ~(h[i].kind = "web" /\ h[j].kind = "doc")

\* C26: the context handed to the completion service for an answer holds at
\* most CTX_MAX_CHUNKS snippets, each of at most CTX_MAX_CHARS characters and
\* none empty, in rank order within a source and with every doc snippet
\* before every web snippet in the merged context.
C26_ContextBounds ==
    (Returned_("_web") \/ Returned_("generate_hybrid")) =>
        \A h \in Handed :
            /\ Len(h) <= CTX_MAX_CHUNKS
            /\ \A i \in 1..Len(h) : h[i].text.len > 0 /\ h[i].text.len <= CTX_MAX_CHARS
            /\ InSourceOrder(h)

\* a merge of more than CTX_MAX_CHUNKS contexts from both sources: the
\* completion gets the first CTX_MAX_CHUNKS, doc and web, each cut to CTX_MAX_CHARS
C26_Witness ==
    /\ Returned_("generate_hybrid")
    /\ Len(call.out.m.contexts) > CTX_MAX_CHUNKS
    /\ Len(call.out.m.handed) = CTX_MAX_CHUNKS
    /\ call.out.m.handed[1].kind = "doc"
    /\ call.out.m.handed[CTX_MAX_CHUNKS].kind = "web"
    /\ \A i \in 1..CTX_MAX_CHUNKS : call.out.m.handed[i].text.len = CTX_MAX_CHARS

\* C27: an invocation of embed_texts_with_meta or of chat_with_meta issues at
\* most one external call; when the service fails, that one call was made,
\* the gateway raises the service's error and makes no second call; when no
\* client is cached and the credential is missing, the gateway raises before
\* any external call.
C27_GatewayOneCall ==
    (Returned_("embed_texts_with_meta") \/ Returned_("chat_with_meta")) =>
        LET a == call.arg
            out == call.out
        IN /\ Len(out.external) <= 1
           /\ (a.key /\ a.outcome \in {"APIError", "APITimeoutError"})
                  => (Len(out.external) = 1 /\ out.raised = a.outcome)
           /\ ~a.key => (out.external = <<>> /\ out.raised = "RuntimeError")
           /\ (a.key /\ a.outcome = "ok") => (out.raised = "none" /\ Len(out.external) = 1)

\* the completion gateway's one call timed out and the timeout came back to
\* the caller
C27_Witness ==
    /\ Returned_("chat_with_meta")
    /\ call.arg.key /\ call.arg.outcome = "APITimeoutError"
    /\ call.out.external = <<"chat.completions.create">>
    /\ call.out.raised = "APITimeoutError"

\* the try block of in_scope_llm raises on the completion's text: it cannot
\* be parsed, or its score is no number
ToFallback(text) == Unparsable(text) \/ (text.shape = "obj" /\ text.score.k = "bad")

\* C30: with SCOPE_THRESHOLD at its default 0.6, a query that contains one
\* of ALLOWED_KEYWORDS passes answer()'s scope check whenever the classifier's
\* output cannot be parsed, whatever that output is: the fallback decision is
\* IN with 0.7, which is not below the threshold.
C30_KeywordPassesScope ==
    (Returned_("in_scope_llm") /\ call.arg.kw /\ ToFallback(call.arg.text)) =>
        /\ ~ScopeRejects(call.out)
        /\ call.out.label = "IN" /\ call.out.score >= SCOPE_THRESHOLD

\* a query with a keyword, a completion whose {...} is no JSON: the decision
\* is not rejected
C30_Witness ==
    /\ Returned_("in_scope_llm")
    /\ call.arg.kw /\ call.arg.text.shape = "badjson"
    /\ call.out.reason = "keyword_hit"
    /\ ~ScopeRejects(call.out)

-----------------------------------------------------------------------------
(* Termination: a request through api_ask and answer(), or a google_search  *)
(* call as _web makes it, under the assumption that every step, its         *)
(* external calls included, eventually returns or raises                    *)

\* a request, or a search
InitLive == Init \/ InitSearch

NextLive == Next \/ NextSearch

\* the code runs sequentially: a step that can be taken is taken
SpecLive == InitLive /\ [][NextLive]_vars /\ WF_vars(NextLive)

\* the ends of a request and of a google_search call
RequestEnds == {"returned", "raised", "http400"}

SearchEnds == {"returned", "raised_key", "raised_search"}

Ended == IF pc # "idle" THEN pc \in RequestEnds ELSE spc \in SearchEnds

LastStage == IF stages = <<>> THEN "none" ELSE stages[Len(stages)]

\* the terminal outcomes of answer() that hold in the current state
OutcomesNow ==
    {o \in {"scope_refusal", "validation_refusal", "accepted", "error"} :
        \/ o = "scope_refusal" /\ Returned /\ LastStage = "early_reject" /\ payload = Refusal
        \/ o = "validation_refusal" /\ Returned /\ LastStage = "validated" /\ payload = Refusal
        \/ o = "accepted" /\ Returned /\ LastStage = "done" /\ payload.answer = draft.text
        \/ o = "error" /\ pc = "raised" /\ payload = None}

\* how far a request has come: api_ask, the scope check, generation (_doc,
\* _web, the merge), validation, the payload, the end
StageRank ==
    CASE pc = "api" -> 0
      [] pc = "scope" -> 1
      [] pc = "generate" -> 2 + (IF d # None THEN 1 ELSE 0) + (IF w # None THEN 1 ELSE 0)
      [] pc = "validate" -> 5
      [] pc = "finish" -> 6
      [] OTHER -> 7

\* C31: if every external call eventually returns or raises, every request
\* eventually ends, and a request that went into answer() ends in exactly one
\* of scope refusal, validation refusal, accepted answer and propagated
\* error; every step of a request moves it to a later stage, so no stage is
\* entered twice and nothing follows the end; a google_search call ends
\* too, with at most 4 attempts per serpapi_call and at most the configured
\* number of pages.
C31_Termination ==
    /\ <>Ended
    /\ [](pc \in {"returned", "raised"} => Cardinality(OutcomesNow) = 1)
    /\ [](pc \notin {"returned", "raised"} => OutcomesNow = {})
    /\ [][pc # "idle" => (pc \notin RequestEnds /\ StageRank' > StageRank)]_vars
    /\ [][spc # "idle" => spc \notin SearchEnds]_vars
    /\ [](spc # "idle" => (attempt <= Retries /\ Len(starts) <= sq.pages))

\* a hybrid request went through every stage, the LLM validator included,
\* and ended with an accepted answer
C31_Witness ==
    /\ pc = "returned" /\ req.mode = "hybrid"
    /\ stages = <<"scope_checked", "generated", "done">>
    /\ validator.llm_called
    /\ OutcomesNow = {"accepted"}

\* a search ended by raising after the fourth failed attempt of its second page
C31_WitnessSearch ==
    /\ spc = "raised_search" /\ attempt = Retries /\ Len(starts) = 2

====
